---- MODULE Spec2Model ----
(***************************************************************************)
(* Model of the silver-rag document ingestion path:                        *)
(*   POST /documents/upload  (app/controllers/document_controller.py)      *)
(*     -> PDFSplitter.split_if_needed      (app/utils/pdf_splitter.py)     *)
(*     -> for each part: DocumentService.process_and_store_document        *)
(*          storage upload -> OCR parse -> indexing -> database insert     *)
(*     -> PDFSplitter.cleanup_temp_files                                   *)
(*                                                                         *)
(* File names are sequences of one-character strings, so that lower(),     *)
(* endswith(), Path.name and Path.stem are computed as the code computes   *)
(* them.  Page contents are page indexes (0-based, as reader.pages).       *)
(***************************************************************************)
EXTENDS Integers, Sequences, FiniteSets, TLC

VARIABLES
    upload,         \* the request's UploadFile: filename, is_pdf, total_pages, file_size
    pc,             \* position of the request: "start", "split", "process", "done"
    session_files,  \* files present in the split-session directory
    temp_files,     \* list of paths (file names) built / returned by split_if_needed
    sp,             \* locals of the split loop
    job,            \* locals of the per-part processing loop
    bucket,         \* object storage: blobs
    dify_docs,      \* documents held by the indexing provider
    documents,      \* rows of table "documents"
    results,        \* the handler's results list
    response,       \* what the handler answered
    next_uuid,      \* source of fresh identifiers
    now,            \* database clock
    split_parts,    \* history: content of each part file at the time it was returned
    log,            \* history: the external calls made for the parts, in order
    cl,             \* the document-API requests in flight, one per client
    chat,           \* one request to a chat route
    users,          \* rows of table "users"
    user_logs       \* rows of table "user_logs"

vars == << upload, pc, session_files, temp_files, sp, job, bucket, dify_docs,
           documents, results, response, next_uuid, now, split_parts, log,
           cl, chat, users, user_logs >>

\* the state of one upload request
ingestVars == << upload, pc, session_files, temp_files, sp, job, results, split_parts >>

\* the state of the document-API clients
repoVars == << cl >>

\* the state of the chat request and of the user tables
chatVars == << chat, users, user_logs >>

----------------------------------------------------------------------------
(* Bounds of the model *)

MaxTotalPages == 7
MaxSizeParts == 2

(* Program constants *)

MAX_PAGES == 3
MAX_FILE_SIZE == 50 * 1024 * 1024

----------------------------------------------------------------------------
(* Strings as sequences of characters *)

Str_pdf == << ".", "p", "d", "f" >>

LowerChar(c) ==
    CASE c = "P" -> "p"
      [] c = "D" -> "d"
      [] c = "F" -> "f"
      [] c = "A" -> "a"
      [] c = "T" -> "t"
      [] c = "X" -> "x"
      [] OTHER -> c

Lower(s) == [k \in 1..Len(s) |-> LowerChar(s[k])]

EndsWith(s, suffix) ==
    /\ Len(s) >= Len(suffix)
    /\ SubSeq(s, Len(s) - Len(suffix) + 1, Len(s)) = suffix

\* str.rfind, 1-based; 0 when the character does not occur
RFind(s, c) ==
    LET hits == {k \in 1..Len(s) : s[k] = c}
    IN  IF hits = {} THEN 0 ELSE CHOOSE k \in hits : \A h \in hits : h <= k

\* Path(filename).name: the last path component
PathName(s) == SubSeq(s, RFind(s, "/") + 1, Len(s))

\* Path(filename).stem: the name without its last suffix; a leading or a
\* trailing dot starts no suffix
PathStem(s) ==
    LET name == PathName(s)
        p == RFind(name, ".")
    IN  IF p > 1 /\ p < Len(name) THEN SubSeq(name, 1, p - 1) ELSE name

Digit(d) ==
    CASE d = 0 -> "0" [] d = 1 -> "1" [] d = 2 -> "2" [] d = 3 -> "3"
      [] d = 4 -> "4" [] d = 5 -> "5" [] d = 6 -> "6" [] d = 7 -> "7"
      [] d = 8 -> "8" [] d = 9 -> "9"

RECURSIVE IntToStr(_)
IntToStr(n) == IF n < 10 THEN << Digit(n) >> ELSE IntToStr(n \div 10) \o << Digit(n % 10) >>

\* f"{Path(file.filename).stem}_{i+1}.pdf"
SplitFilename(filename, i) == PathStem(filename) \o << "_" >> \o IntToStr(i + 1) \o Str_pdf

\* not file.filename.lower().endswith('.pdf')
IsPdfFilename(filename) == EndsWith(Lower(filename), Str_pdf)

----------------------------------------------------------------------------
(* Inputs *)

Filenames ==
    { << "a", ".", "p", "d", "f" >>,
      << "a", ".", "P", "d", "F" >>,
      << "d", "/", "a", ".", "p", "d", "f" >>,
      << "a", ".", "t", "x", "t" >> }

\* len(content): byte sizes around the multiples of MAX_FILE_SIZE
FileSizes ==
    {1} \cup {k * MAX_FILE_SIZE + d : k \in 1..MaxSizeParts, d \in {0, 1}}

\* os.path.getsize of a serialized part: at the limit, or over it
PartSizes == {MAX_FILE_SIZE, MAX_FILE_SIZE + 1}

\* An upload is either a PDF with total_pages pages or a file PdfReader cannot read
Uploads ==
    [filename : Filenames, is_pdf : {TRUE}, total_pages : 0..MaxTotalPages, file_size : FileSizes]
    \cup
    [filename : Filenames, is_pdf : {FALSE}, total_pages : {0}, file_size : FileSizes]

\* reader.pages of the whole upload, as page indexes
AllPages(T) == [k \in 1..T |-> k - 1]

NoResponse == [kind |-> "none", status |-> 0]

SpInit ==
    [num_parts |-> 0, i |-> 0, current_page |-> 0, pages_added |-> 0,
     writer |-> << >>, sizes |-> << >>, part_size |-> 0, broke |-> FALSE,
     temp_files |-> << >>, rollbacks |-> 0, outcome |-> "none"]

\* a client with no request in flight
ClientIdle == [op |-> "idle", pc |-> "idle"]

\* no chat request
ChatIdle == [pc |-> "idle"]

\* two concurrent callers
Clients == {1, 2}

JobInit ==
    [idx |-> 0, stage |-> "none", gcs_document_id |-> << >>,
     upstage_response |-> << >>, dify_response |-> << >>, fpos |-> 0,
     failed_part |-> 0]

Init ==
    /\ upload \in Uploads
    /\ pc = "start"
    /\ session_files = {}
    /\ temp_files = << >>
    /\ sp = SpInit
    /\ job = JobInit
    /\ bucket = {}
    /\ dify_docs = {}
    /\ documents = << >>
    /\ results = << >>
    /\ response = NoResponse
    /\ next_uuid = 1
    /\ now = 1
    /\ split_parts = << >>
    /\ log = << >>
    /\ cl = [c \in Clients |-> ClientIdle]
    /\ chat = ChatIdle
    /\ users = {}
    /\ user_logs = << >>

----------------------------------------------------------------------------
(* PDFSplitter.split_if_needed *)

Max(a, b) == IF a >= b THEN a ELSE b

\* variant: the quotient plus one instead of the rounded-up quotient
PageParts_Extra(T) == (T \div MAX_PAGES) + 1

\* page_parts = (total_pages + MAX_PAGES - 1) // MAX_PAGES
PageParts(T) == (T + MAX_PAGES - 1) \div MAX_PAGES

\* size_parts = (file_size + MAX_FILE_SIZE - 1) // MAX_FILE_SIZE
SizeParts(B) == (B + MAX_FILE_SIZE - 1) \div MAX_FILE_SIZE

\* num_parts; file_size / num_parts > MAX_FILE_SIZE is a true division, which
\* for page_parts >= 1 is file_size > MAX_FILE_SIZE * page_parts
NumParts(T, B) ==
    IF B > MAX_FILE_SIZE * PageParts(T)
    THEN Max(SizeParts(B), PageParts(T))
    ELSE PageParts(T)

\* variant: the extra page goes to parts 0..remaining_pages
PagesThisPart_OffByOne(T, n, i) == (T \div n) + (IF i <= T % n THEN 1 ELSE 0)

\* pages_this_part = pages_per_part + (1 if i < remaining_pages else 0)
PagesThisPart(T, n, i) == (T \div n) + (IF i < T % n THEN 1 ELSE 0)

\* variant: the size check runs from the first page on
SizeChecked_FirstPage(pages_added) == pages_added > 0

\* the size check runs only once a second or later page was added
SizeChecked(pages_added) == pages_added > 1

\* variant: the comparison lets one byte over the limit pass
OverLimit_Lenient(part_size) == part_size > MAX_FILE_SIZE + 1

\* if part_size > MAX_FILE_SIZE
OverLimit(part_size) == part_size > MAX_FILE_SIZE

\* the rebuilt writer: range(pages_added - 1) of reader.pages[current_page - pages_added + j]
RebuiltWriter(current_page, pages_added) ==
    [k \in 1..(pages_added - 1) |-> current_page - pages_added + (k - 1)]

\* except Exception: os.unlink(temp_upload_path); raise PDFError
\* PDFError reaches upload_document's "except ServiceError" (status 400)
PDFErrorStatus == 400

\* variant: the except clause without the unlink
SplitRaise_KeepUpload(files) ==
    /\ session_files' = files
    /\ response' = [kind |-> "raised", status |-> PDFErrorStatus]
    /\ pc' = "done"

SplitRaise(files) ==
    /\ session_files' = {f \in files : f.name # PathName(upload.filename)}
    /\ response' = [kind |-> "raised", status |-> PDFErrorStatus]
    /\ pc' = "done"

\* store a file under a name of the session directory (open(path, 'wb'))
WriteFile(files, f) == {g \in files : g.name # f.name} \cup {f}

\* lines 16-59: store the upload, read it, decide the number of parts
SplitStart ==
    /\ pc = "start"
    /\ LET T == upload.total_pages
           B == upload.file_size
           orig == [name |-> PathName(upload.filename), pages |-> AllPages(T), size |-> B]
           stored == WriteFile(session_files, orig)
       IN  IF ~upload.is_pdf \/ PageParts(T) = 0
           THEN \* PdfReader raises, or file_size / 0 raises ZeroDivisionError
                /\ SplitRaise(stored)
                /\ sp' = [sp EXCEPT !.outcome = "error"]
                /\ UNCHANGED << temp_files, split_parts >>
           ELSE IF NumParts(T, B) = 1
           THEN /\ session_files' = stored
                /\ temp_files' = << orig.name >>
                /\ split_parts' = << orig >>
                /\ sp' = [sp EXCEPT !.num_parts = 1, !.outcome = "original"]
                /\ pc' = "process"
                /\ UNCHANGED response
           ELSE /\ session_files' = stored
                /\ sp' = [sp EXCEPT !.num_parts = NumParts(T, B)]
                /\ pc' = "split"
                /\ UNCHANGED << temp_files, split_parts, response >>
    /\ job' = IF pc' = "process" THEN [job EXCEPT !.idx = 1, !.stage = "storage"] ELSE job
    /\ UNCHANGED << repoVars, chatVars, upload, bucket, dify_docs, documents, results, next_uuid, now, log >>

InnerLoopRuns ==
    /\ ~sp.broke
    /\ sp.pages_added < PagesThisPart(upload.total_pages, sp.num_parts, sp.i)
    /\ sp.current_page < upload.total_pages

\* lines 68-90: one iteration of the while loop; sz is the measured size of
\* the writer after the page was added
AddPage ==
    /\ pc = "split"
    /\ InnerLoopRuns
    /\ \E sz \in PartSizes :
         LET cp == sp.current_page + 1
             pa == sp.pages_added + 1
         IN  IF SizeChecked(pa) /\ OverLimit(sz)
             THEN sp' = [sp EXCEPT !.writer = RebuiltWriter(cp, pa),
                                   !.current_page = cp - 1,
                                   !.pages_added = pa - 1,
                                   !.part_size = sz,
                                   !.broke = TRUE,
                                   !.rollbacks = @ + 1]
             ELSE sp' = [sp EXCEPT !.writer = Append(@, sp.current_page),
                                   !.sizes = Append(@, sz),
                                   !.current_page = cp,
                                   !.pages_added = pa,
                                   !.part_size = IF SizeChecked(pa) THEN sz ELSE @]
    /\ UNCHANGED << repoVars, chatVars, upload, pc, session_files, temp_files, job, bucket, dify_docs,
                    documents, results, response, next_uuid, now, split_parts, log >>

\* reader.pages[current_page] or writer.add_page raising (lines 69-70, 106-109)
AddPageFails ==
    /\ pc = "split"
    /\ InnerLoopRuns
    /\ SplitRaise(session_files)
    /\ sp' = [sp EXCEPT !.outcome = "error"]
    /\ UNCHANGED << repoVars, chatVars, upload, temp_files, job, bucket, dify_docs, documents, results,
                    next_uuid, now, split_parts, log >>

\* the outer loop goes on to part i + 1
MoreParts(current_page, i) ==
    /\ current_page < upload.total_pages
    /\ i + 1 < sp.num_parts

\* lines 92-104: save the part; stop when all pages are processed or the
\* range is exhausted
WritePart ==
    /\ pc = "split"
    /\ ~InnerLoopRuns
    /\ LET part == [name |-> SplitFilename(upload.filename, sp.i),
                    pages |-> sp.writer,
                    size |-> IF sp.sizes = << >> THEN 0 ELSE sp.sizes[Len(sp.sizes)]]
       IN  /\ session_files' = WriteFile(session_files, part)
           /\ split_parts' = Append(split_parts, part)
           /\ IF MoreParts(sp.current_page, sp.i)
              THEN /\ sp' = [sp EXCEPT !.i = @ + 1, !.writer = << >>, !.sizes = << >>,
                                       !.part_size = 0, !.pages_added = 0, !.broke = FALSE,
                                       !.temp_files = Append(@, part.name)]
                   /\ pc' = "split"
                   /\ UNCHANGED << temp_files, job >>
              ELSE /\ sp' = [sp EXCEPT !.temp_files = Append(@, part.name),
                                       !.outcome = "split"]
                   /\ temp_files' = Append(sp.temp_files, part.name)
                   /\ pc' = "process"
                   /\ job' = [job EXCEPT !.idx = 1, !.stage = "storage"]
    /\ UNCHANGED << repoVars, chatVars, upload, bucket, dify_docs, documents, results, response,
                    next_uuid, now, log >>

\* writer.write raising inside the try block (lines 96-97, 106-109)
WritePartFails ==
    /\ pc = "split"
    /\ ~InnerLoopRuns
    /\ SplitRaise(session_files)
    /\ sp' = [sp EXCEPT !.outcome = "error"]
    /\ UNCHANGED << repoVars, chatVars, upload, temp_files, job, bucket, dify_docs, documents, results,
                    next_uuid, now, split_parts, log >>

----------------------------------------------------------------------------
(* PDFSplitter.cleanup_temp_files *)

\* unlink every listed path that exists
CleanupTempFiles(files, paths) ==
    {f \in files : \A k \in 1..Len(paths) : paths[k] # f.name}

----------------------------------------------------------------------------
(* upload_document: the per-part loop, and process_and_store_document *)

\* open(temp_file, 'rb'): the file of the session directory under that name
OpenFile(name) == CHOOSE f \in session_files : f.name = name

\* await file.read(): everything from the read position on
ReadFrom(f, fpos) == IF fpos = 0 THEN [pages |-> f.pages, size |-> f.size]
                                 ELSE [pages |-> << >>, size |-> 0]

\* variant: no seek, the position stays where file.read() left it
SeekAfterCall_None(f) == f.size

\* finally: await file.seek(0), on return and on raise
SeekAfterCall(f) == 0

\* UploadFile(filename=temp_file.name, ...)
PartFilename == temp_files[job.idx]

Event(op, ok, val) == [op |-> op, part |-> job.idx, ok |-> ok, val |-> val]

\* the status upload_document answers for an error raised in the loop
StatusOf(err) ==
    CASE err = "DifyAPIError" -> 500
      [] err = "DatabaseError" -> 400
      [] err = "UpstageAPIError" -> 400
      [] OTHER -> 400     \* ServiceError, StorageError: re-raised, outer handler

\* an exception leaves the loop: finally-cleanup, then the HTTP error
Raise(err) ==
    /\ session_files' = CleanupTempFiles(session_files, temp_files)
    /\ response' = [kind |-> "raised", status |-> StatusOf(err)]
    /\ pc' = "done"

\* line 23: if not file.filename.lower().endswith('.pdf'): raise ServiceError
RejectFilename ==
    /\ pc = "process" /\ job.stage = "storage"
    /\ ~IsPdfFilename(PartFilename)
    /\ Raise("ServiceError")
    /\ job' = [job EXCEPT !.stage = "none", !.failed_part = job.idx]
    /\ log' = Append(log, Event("validate", FALSE, << >>))
    /\ UNCHANGED << repoVars, chatVars, upload, temp_files, sp, bucket, dify_docs, documents, results,
                    next_uuid, now, split_parts >>

\* variant: one identifier for every upload
Uuid4_Reused == << "uuid", 1 >>

\* str(uuid.uuid4()): an identifier never generated before
Uuid4 == << "uuid", next_uuid >>

\* StorageService.upload_file succeeding
StorageUpload ==
    /\ pc = "process" /\ job.stage = "storage"
    /\ IsPdfFilename(PartFilename)
    /\ LET content == ReadFrom(OpenFile(PartFilename), job.fpos)
       IN  /\ bucket' = bucket \cup
                 {[document_id |-> Uuid4, filename |-> PartFilename, content |-> content]}
           /\ log' = Append(log, Event("storage", TRUE,
                        [document_id |-> Uuid4, content |-> content]))
    /\ next_uuid' = next_uuid + 1
    /\ job' = [job EXCEPT !.stage = "ocr", !.gcs_document_id = Uuid4, !.fpos = SeekAfterCall(OpenFile(PartFilename))]
    /\ UNCHANGED << repoVars, chatVars, upload, pc, session_files, temp_files, sp, dify_docs, documents,
                    results, response, now, split_parts >>

\* StorageService.upload_file raising StorageError
StorageUploadFails ==
    /\ pc = "process" /\ job.stage = "storage"
    /\ IsPdfFilename(PartFilename)
    /\ Raise("StorageError")
    /\ job' = [job EXCEPT !.stage = "none", !.failed_part = job.idx, !.fpos = SeekAfterCall(OpenFile(PartFilename))]
    /\ log' = Append(log, Event("storage", FALSE, << >>))
    /\ UNCHANGED << repoVars, chatVars, upload, temp_files, sp, bucket, dify_docs, documents, results,
                    next_uuid, now, split_parts >>

\* the provider's answer for a part: html and markdown of that part
OcrAnswer == [html |-> << "html", job.idx >>, markdown |-> << "markdown", job.idx >>]

\* UpstageService.parse_document succeeding
OcrParse ==
    /\ pc = "process" /\ job.stage = "ocr"
    /\ LET content == ReadFrom(OpenFile(PartFilename), job.fpos)
       IN  log' = Append(log, Event("ocr", TRUE,
                     [content |-> content, html |-> OcrAnswer.html,
                      markdown |-> OcrAnswer.markdown]))
    /\ job' = [job EXCEPT !.stage = "dify", !.upstage_response = OcrAnswer, !.fpos = SeekAfterCall(OpenFile(PartFilename))]
    /\ UNCHANGED << repoVars, chatVars, upload, pc, session_files, temp_files, sp, bucket, dify_docs,
                    documents, results, response, next_uuid, now, split_parts >>

\* UpstageService.parse_document raising UpstageAPIError
OcrParseFails ==
    /\ pc = "process" /\ job.stage = "ocr"
    /\ Raise("UpstageAPIError")
    /\ job' = [job EXCEPT !.stage = "none", !.failed_part = job.idx, !.fpos = SeekAfterCall(OpenFile(PartFilename))]
    /\ log' = Append(log, Event("ocr", FALSE, << >>))
    /\ UNCHANGED << repoVars, chatVars, upload, temp_files, sp, bucket, dify_docs, documents, results,
                    next_uuid, now, split_parts >>

\* the provider's answer: document.id and data_source_info.upload_file_id
DifyAnswer ==
    [document_id |-> << "dify_doc", next_uuid >>,
     upload_file_id |-> << "dify_file", next_uuid >>]

\* DifyService.create_document succeeding
DifyCreate ==
    /\ pc = "process" /\ job.stage = "dify"
    /\ dify_docs' = dify_docs \cup
          {[id |-> DifyAnswer.document_id, upload_file_id |-> DifyAnswer.upload_file_id,
            name |-> PartFilename, text |-> job.upstage_response.markdown]}
    /\ log' = Append(log, Event("dify", TRUE,
                  [document_id |-> DifyAnswer.document_id,
                   upload_file_id |-> DifyAnswer.upload_file_id,
                   text |-> job.upstage_response.markdown]))
    /\ next_uuid' = next_uuid + 1
    /\ job' = [job EXCEPT !.stage = "db", !.dify_response = DifyAnswer]
    /\ UNCHANGED << repoVars, chatVars, upload, pc, session_files, temp_files, sp, bucket, documents,
                    results, response, now, split_parts >>

\* DifyService.create_document raising DifyAPIError
DifyCreateFails ==
    /\ pc = "process" /\ job.stage = "dify"
    /\ Raise("DifyAPIError")
    /\ job' = [job EXCEPT !.stage = "none", !.failed_part = job.idx]
    /\ log' = Append(log, Event("dify", FALSE, << >>))
    /\ UNCHANGED << repoVars, chatVars, upload, temp_files, sp, bucket, dify_docs, documents, results,
                    next_uuid, now, split_parts >>

\* variant: the two provider identifiers are exchanged
DocumentData_Swapped ==
    [filename |-> PartFilename,
     gcs_document_id |-> job.gcs_document_id,
     html_content |-> job.upstage_response.html,
     markdown_content |-> job.upstage_response.markdown,
     dify_document_id |-> job.dify_response.upload_file_id,
     dify_upload_file_id |-> job.dify_response.document_id]

\* DocumentCreate(...) of lines 39-46
DocumentData ==
    [filename |-> PartFilename,
     gcs_document_id |-> job.gcs_document_id,
     html_content |-> job.upstage_response.html,
     markdown_content |-> job.upstage_response.markdown,
     dify_document_id |-> job.dify_response.document_id,
     dify_upload_file_id |-> job.dify_response.upload_file_id]

\* the DocumentDB row: autoincrement id, created_at default, deleted_at NULL
NewRow(data) ==
    [id |-> Len(documents) + 1,
     filename |-> data.filename,
     gcs_document_id |-> data.gcs_document_id,
     html_content |-> data.html_content,
     markdown_content |-> data.markdown_content,
     dify_document_id |-> data.dify_document_id,
     dify_upload_file_id |-> data.dify_upload_file_id,
     created_at |-> now,
     deleted_at |-> 0]

\* Document.model_validate(db_document): the row without deleted_at
DocumentOf(row) ==
    [id |-> row.id, filename |-> row.filename, gcs_document_id |-> row.gcs_document_id,
     html_content |-> row.html_content, markdown_content |-> row.markdown_content,
     dify_document_id |-> row.dify_document_id,
     dify_upload_file_id |-> row.dify_upload_file_id, created_at |-> row.created_at]

\* variant: the loop stops one part early
MoreTempFiles_SkipLast == job.idx + 1 < Len(temp_files)

\* the for loop has another temp_file
MoreTempFiles == job.idx < Len(temp_files)

\* DocumentService.create_document succeeding; results.append; then the next
\* part, or cleanup and return results
CreateDocument ==
    /\ pc = "process" /\ job.stage = "db"
    /\ LET row == NewRow(DocumentData)
       IN  /\ documents' = Append(documents, row)
           /\ results' = Append(results, DocumentOf(row))
           /\ log' = Append(log, Event("insert", TRUE, row))
    /\ now' = now + 1
    /\ IF MoreTempFiles
       THEN /\ job' = [JobInit EXCEPT !.idx = job.idx + 1, !.stage = "storage"]
            /\ UNCHANGED << pc, session_files, response >>
       ELSE /\ job' = [job EXCEPT !.stage = "none"]
            /\ session_files' = CleanupTempFiles(session_files, temp_files)
            /\ response' = [kind |-> "returned", status |-> 200]
            /\ pc' = "done"
    /\ UNCHANGED << repoVars, chatVars, upload, temp_files, sp, bucket, dify_docs, next_uuid, split_parts >>

\* variant: the error of a part is swallowed and the loop goes on
CreateDocumentFails_Continue ==
    /\ pc = "process" /\ job.stage = "db"
    /\ log' = Append(log, Event("insert", FALSE, << >>))
    /\ IF job.idx < Len(temp_files)
       THEN /\ job' = [JobInit EXCEPT !.idx = job.idx + 1, !.stage = "storage"]
            /\ UNCHANGED << pc, session_files, response >>
       ELSE /\ job' = [job EXCEPT !.stage = "none"]
            /\ session_files' = CleanupTempFiles(session_files, temp_files)
            /\ response' = [kind |-> "returned", status |-> 200]
            /\ pc' = "done"
    /\ UNCHANGED << repoVars, chatVars, upload, temp_files, sp, bucket, dify_docs, documents, results,
                    next_uuid, now, split_parts >>

\* variant: the failure is followed by deletes of what the part had stored
CreateDocumentFails_Compensates ==
    /\ pc = "process" /\ job.stage = "db"
    /\ Raise("DatabaseError")
    /\ job' = [job EXCEPT !.stage = "none", !.failed_part = job.idx]
    /\ log' = Append(log, Event("insert", FALSE, << >>))
    /\ bucket' = {b \in bucket : b.document_id # job.gcs_document_id}
    /\ dify_docs' = {x \in dify_docs : x.id # job.dify_response.document_id}
    /\ UNCHANGED << repoVars, chatVars, upload, temp_files, sp, documents, results,
                    next_uuid, now, split_parts >>

\* DocumentService.create_document raising DatabaseError: nothing is committed
CreateDocumentFails ==
    /\ pc = "process" /\ job.stage = "db"
    /\ Raise("DatabaseError")
    /\ job' = [job EXCEPT !.stage = "none", !.failed_part = job.idx]
    /\ log' = Append(log, Event("insert", FALSE, << >>))
    /\ UNCHANGED << repoVars, chatVars, upload, temp_files, sp, bucket, dify_docs, documents, results,
                    next_uuid, now, split_parts >>

----------------------------------------------------------------------------

Next ==
    \/ SplitStart
    \/ AddPage
    \/ WritePart
    \/ WritePartFails
    \/ AddPageFails
    \/ RejectFilename
    \/ StorageUpload
    \/ StorageUploadFails
    \/ OcrParse
    \/ OcrParseFails
    \/ DifyCreate
    \/ DifyCreateFails
    \/ CreateDocument
    \/ CreateDocumentFails

Spec == Init /\ [][Next]_vars

----------------------------------------------------------------------------
(* Vocabulary of the properties *)

SplitReturned == sp.outcome \in {"original", "split"}

RequestDone == pc = "done"

RECURSIVE ConcatPages(_)
ConcatPages(parts) ==
    IF parts = << >> THEN << >>
    ELSE parts[1].pages \o ConcatPages(Tail(parts))

RECURSIVE SumPages(_)
SumPages(parts) ==
    IF parts = << >> THEN 0 ELSE Len(parts[1].pages) + SumPages(Tail(parts))

\* the page sequence 1..T of the upload, as page indexes 0..T-1
OriginalPages == [k \in 1..upload.total_pages |-> k - 1]

\* ceil(a / b) for b >= 1: the quotient, plus one when the division leaves a rest
CeilDiv(a, b) == IF a % b = 0 THEN a \div b ELSE (a \div b) + 1

\* N of the specification: ceil(T/P_max), raised to the maximum with
\* ceil(B/S_max) when B / ceil(T/P_max) > S_max
ExpectedParts ==
    LET byPages == CeilDiv(upload.total_pages, MAX_PAGES)
    IN  IF upload.file_size > MAX_FILE_SIZE * byPages
        THEN Max(byPages, CeilDiv(upload.file_size, MAX_FILE_SIZE))
        ELSE byPages

PageCounts == [k \in 1..Len(split_parts) |-> Len(split_parts[k].pages)]

StageOps == {"storage", "ocr", "dify", "insert"}

\* positions of log holding a successful call of stage op for part p
OkAt(op, p) == {a \in DOMAIN log : log[a].op = op /\ log[a].part = p /\ log[a].ok}

----------------------------------------------------------------------------
(* C1: the parts returned by split_if_needed, concatenated in part order,
   are exactly the original page sequence (page counts sum to T, nothing
   dropped, nothing duplicated, order kept), also when the size rollback
   fires. *)
C1_PagesConserved ==
    (SplitReturned /\ upload.total_pages >= 1) =>
        /\ SumPages(split_parts) = upload.total_pages
        /\ ConcatPages(split_parts) = OriginalPages

(* C1, restricted to runs in which no rollback fired: the restriction under
   which the code does conserve the pages. *)
C1_PagesConservedNoRollback ==
    (SplitReturned /\ upload.total_pages >= 1 /\ sp.rollbacks = 0) =>
        ConcatPages(split_parts) = OriginalPages

----------------------------------------------------------------------------
(* C2: a Document row of a part exists only if storage upload, OCR parse and
   indexing of that part succeeded, in that order, before the insert; the
   row carries the values those calls returned; a failed stage of a part
   leaves no row of that part. *)
C2_RowOnlyAfterAllStages ==
    /\ \A k \in DOMAIN documents :
         LET row == documents[k] IN
         \E p \in 1..Len(temp_files) :
           /\ row.filename = temp_files[p]
           /\ \E a \in OkAt("storage", p), b \in OkAt("ocr", p),
                 c \in OkAt("dify", p), d \in OkAt("insert", p) :
                /\ a < b /\ b < c /\ c < d
                /\ row.gcs_document_id = log[a].val.document_id
                /\ row.html_content = log[b].val.html
                /\ row.markdown_content = log[b].val.markdown
                /\ row.dify_document_id = log[c].val.document_id
                /\ row.dify_upload_file_id = log[c].val.upload_file_id
                /\ log[d].val = row
    /\ \A a \in DOMAIN log :
         ~log[a].ok =>
            \A k \in DOMAIN documents : documents[k].filename # temp_files[log[a].part]

C2_Witness ==
    /\ Len(documents) >= 2
    /\ job.failed_part = 3
    /\ \E a \in DOMAIN log : log[a].op = "dify" /\ ~log[a].ok

----------------------------------------------------------------------------
(* C3: when the upload request has finished, on every exit path, no file
   created in the split-session directory still exists. *)
C3_SessionDirEmpty == RequestDone => session_files = {}

----------------------------------------------------------------------------
----------------------------------------------------------------------------
(* C5: every returned part holds at least one page and at most MAX_PAGES
   pages, for every T >= 1, every file size, with or without rollback. *)
C5_PartPageBounds ==
    (SplitReturned /\ upload.total_pages >= 1) =>
        \A k \in DOMAIN split_parts :
            /\ Len(split_parts[k].pages) >= 1
            /\ Len(split_parts[k].pages) <= MAX_PAGES

C5_Witness ==
    /\ sp.outcome = "split"
    /\ sp.rollbacks >= 2
    /\ upload.file_size > MAX_FILE_SIZE
    /\ \E k \in DOMAIN split_parts : Len(split_parts[k].pages) = MAX_PAGES

----------------------------------------------------------------------------
(* C6 as stated: a PDF of at most MAX_PAGES pages and at most MAX_FILE_SIZE
   bytes comes back as exactly one part, the unmodified original, and no part
   file is generated. *)
C6_SmallPdfUnsplit ==
    (pc # "start" /\ upload.is_pdf /\ upload.total_pages <= MAX_PAGES
        /\ upload.file_size <= MAX_FILE_SIZE) =>
        /\ sp.outcome = "original"
        /\ Len(split_parts) = 1
        /\ split_parts[1] = [name |-> PathName(upload.filename),
                             pages |-> OriginalPages, size |-> upload.file_size]
        /\ \A f \in session_files : f.name = PathName(upload.filename)

(* C6, amended: the same for a PDF of at least one page. *)
C6_SmallNonEmptyPdfUnsplit ==
    (pc # "start" /\ upload.is_pdf /\ upload.total_pages >= 1
        /\ upload.total_pages <= MAX_PAGES /\ upload.file_size <= MAX_FILE_SIZE) =>
        /\ sp.outcome = "original"
        /\ Len(split_parts) = 1
        /\ temp_files = << PathName(upload.filename) >>
        /\ split_parts[1] = [name |-> PathName(upload.filename),
                             pages |-> OriginalPages, size |-> upload.file_size]
        /\ \A f \in session_files : f.name = PathName(upload.filename)

C6_Witness ==
    /\ pc = "process"
    /\ upload.is_pdf /\ upload.total_pages = MAX_PAGES
    /\ upload.file_size = MAX_FILE_SIZE
    /\ sp.outcome = "original"

----------------------------------------------------------------------------
(* C7: with N > 1 and no rollback, split_if_needed returns min(N, T) parts
   and part i holds T // N pages plus one when i <= T mod N; T = 7 with
   MAX_PAGES = 3 gives [3, 2, 2]. *)
C7_EvenDistribution ==
    (SplitReturned /\ upload.total_pages >= 1 /\ ExpectedParts > 1 /\ sp.rollbacks = 0) =>
        LET T == upload.total_pages
            N == ExpectedParts
        IN  /\ sp.outcome = "split"
            /\ Len(split_parts) = IF N <= T THEN N ELSE T
            /\ \A i \in DOMAIN split_parts :
                 Len(split_parts[i].pages) = (T \div N) + (IF i <= T % N THEN 1 ELSE 0)
            /\ (T = 7 /\ N = 3) => PageCounts = << 3, 2, 2 >>

C7_Witness ==
    /\ sp.outcome = "split"
    /\ sp.rollbacks = 0
    /\ upload.total_pages = 7
    /\ PageCounts = << 3, 2, 2 >>

----------------------------------------------------------------------------
(* C8: an upload whose filename does not end in ".pdf" (case-insensitively)
   is rejected with a service error, and no storage upload, OCR call,
   indexing call or insert is made for it or for any part derived from it. *)
C8_NonPdfNameRejected ==
    ~EndsWith(Lower(upload.filename), Str_pdf) =>
        /\ \A a \in DOMAIN log : log[a].op \notin StageOps
        /\ documents = << >> /\ bucket = {} /\ dify_docs = {}
        /\ RequestDone => (response.kind = "raised" /\ response.status = 400)

----------------------------------------------------------------------------
(* C9: if part k fails at any stage, the rows created for parts 1..k-1 stay
   live and unchanged, and nothing (upload, OCR, indexing, insert) is ever
   done for parts k+1..N. *)
C9_FailureStopsBatch ==
    \A a \in DOMAIN log :
        ~log[a].ok =>
            LET k == log[a].part IN
            /\ \A b \in DOMAIN log : log[b].part <= k
            /\ a = Len(log)
            /\ Len(documents) = k - 1
            /\ \A p \in 1..(k - 1) :
                 /\ documents[p].deleted_at = 0
                 /\ \E d \in OkAt("insert", p) : log[d].val = documents[p]

C9_Witness ==
    /\ RequestDone
    /\ Len(temp_files) = 3
    /\ job.failed_part = 2
    /\ Len(documents) = 1

----------------------------------------------------------------------------
(* C10: the parts are processed one at a time in part order: no stage of
   part i+1 starts before the row of part i is persisted; the rows created
   and the list returned on success hold exactly one Document per part, in
   part order. *)
C10_PartsInOrder ==
    /\ \A a, b \in DOMAIN log : a < b => log[a].part <= log[b].part
    /\ \A b \in DOMAIN log :
         log[b].part > 1 => \E d \in OkAt("insert", log[b].part - 1) : d < b
    /\ \A k \in DOMAIN documents : documents[k].filename = temp_files[k]
    /\ Len(results) = Len(documents)
    /\ \A k \in DOMAIN results : results[k] = DocumentOf(documents[k])
    /\ response.status = 200 =>
         /\ Len(results) = Len(temp_files)
         /\ \A k \in DOMAIN results : results[k].filename = temp_files[k]

C10_Witness ==
    /\ response.status = 200
    /\ Len(temp_files) = 3
    /\ Len(results) = 3

----------------------------------------------------------------------------
(* DocumentService lookups and StorageService objects, over the tables *)

\* the empty string ''
EmptyStr == << >>

\* Python None
None == [none |-> TRUE]

\* an exception wrapped by the service's except clause
RaisedDatabaseError == [raised |-> "DatabaseError"]

\* column IS NULL (deleted_at 0 stands for NULL)
IsNull(v) == v = 0

\* Python truth of an Optional[datetime]: None is false, every datetime true
Truthy(v) == v # 0

\* session.get(DocumentDB, document_id): the row with that primary key, or None
SessionGet(document_id) ==
    IF \E k \in DOMAIN documents : documents[k].id = document_id
    THEN documents[CHOOSE k \in DOMAIN documents : documents[k].id = document_id]
    ELSE None

\* variant: get_document without the deleted_at test
GetDocument_IgnoreDeleted(document_id) ==
    LET query == SessionGet(document_id)
    IN  IF query = None THEN None ELSE DocumentOf(query)

\* DocumentService.get_document
GetDocument(document_id) ==
    LET query == SessionGet(document_id)
    IN  IF query = None \/ Truthy(query.deleted_at) THEN None ELSE DocumentOf(query)

\* result.scalar_one_or_none() over the selected rows, then model_validate
ScalarOneOrNone(rows) ==
    IF rows = {} THEN None
    ELSE IF Cardinality(rows) = 1 THEN DocumentOf(CHOOSE r \in rows : TRUE)
    ELSE RaisedDatabaseError     \* MultipleResultsFound, wrapped

\* DocumentService.get_document_by_gcs_id
GetDocumentByGcsId(gcs_document_id) ==
    ScalarOneOrNone({documents[k] : k \in
        {j \in DOMAIN documents : /\ documents[j].gcs_document_id = gcs_document_id
                                  /\ IsNull(documents[j].deleted_at)}})

\* DocumentService.get_document_by_dify_id
GetDocumentByDifyId(dify_document_id) ==
    ScalarOneOrNone({documents[k] : k \in
        {j \in DOMAIN documents : /\ documents[j].dify_document_id = dify_document_id
                                  /\ IsNull(documents[j].deleted_at)}})

\* the object name f"{document_id}/{filename}", as its path components
BlobName(b) == << b.document_id, b.filename >>

\* bucket.list_blobs(prefix=...): objects whose name starts with the components
ListBlobs(prefix) ==
    {b \in bucket : /\ Len(prefix) <= Len(BlobName(b))
                    /\ \A n \in 1..Len(prefix) : BlobName(b)[n] = prefix[n]}

\* blob.upload_from_string: an object of the same name is overwritten
PutBlob(b) == {x \in bucket : BlobName(x) # BlobName(b)} \cup {b}

\* the prefix f"{document_id}/" of get_file
GetFilePrefix(document_id) == << document_id >>

\* the prefix f"documents/{document_id}/" of delete_file
DeleteFilePrefix(document_id) == << << "documents" >>, document_id >>

\* StorageService.get_file: the first object under the prefix, or None
GetFile(document_id) ==
    LET blobs == ListBlobs(GetFilePrefix(document_id))
    IN  IF blobs = {} THEN None
        ELSE LET blob == CHOOSE b \in blobs : TRUE
             IN  [content |-> blob.content, filename |-> blob.filename]

\* DocumentService.get_document_file
GetDocumentFile(document_id) ==
    LET document == GetDocument(document_id)
    IN  IF document = None THEN None
        ELSE GetFile(document.gcs_document_id)

Min(a, b) == IF a < b THEN a ELSE b

\* rows selected WHERE deleted_at IS NULL, as table positions
LiveRows == {k \in DOMAIN documents : IsNull(documents[k].deleted_at)}

\* ORDER BY created_at DESC; rows of equal created_at come in an order the
\* database chooses (tie), here by ascending or by descending id
Precedes(a, b, tie) ==
    \/ documents[a].created_at > documents[b].created_at
    \/ /\ documents[a].created_at = documents[b].created_at
       /\ IF tie = "asc" THEN documents[a].id < documents[b].id
                         ELSE documents[a].id > documents[b].id

Ties == {"asc", "desc"}

\* the ordered result before OFFSET/LIMIT
Ordered(tie) ==
    [r \in 1..Cardinality(LiveRows) |->
        CHOOSE k \in LiveRows :
            Cardinality({j \in LiveRows : Precedes(j, k, tie)}) = r - 1]

\* variant: the offset of a 0-based page number
ListOffset_ZeroBased(page, page_size) == page * page_size

\* offset = (page - 1) * page_size
ListOffset(page, page_size) == (page - 1) * page_size

\* the number of rows OFFSET offset LIMIT limit leaves of total rows
WindowCount(total, offset, limit) == Max(0, Min(limit, total - offset))

\* (total_count + page_size - 1) // page_size
TotalPages(total_count, page_size) == (total_count + page_size - 1) \div page_size

\* markdown_content[:300] + '...' when longer than 300
Truncated(markdown_content) ==
    IF Len(markdown_content) > 300
    THEN SubSeq(markdown_content, 1, 300) \o << ".", ".", "." >>
    ELSE markdown_content

\* one entry of document_list: the row without html_content
ListItem(doc) ==
    [id |-> doc.id, filename |-> doc.filename, gcs_document_id |-> doc.gcs_document_id,
     markdown_content |-> Truncated(doc.markdown_content),
     dify_document_id |-> doc.dify_document_id,
     dify_upload_file_id |-> doc.dify_upload_file_id, created_at |-> doc.created_at]

\* DocumentService.list_documents
ListDocuments(page, page_size, tie) ==
    LET offset == ListOffset(page, page_size)
        total_count == Cardinality(LiveRows)
        ordered == Ordered(tie)
        n == WindowCount(total_count, offset, page_size)
    IN  [items |-> [j \in 1..n |-> ListItem(documents[ordered[offset + j]])],
         total |-> total_count,
         page |-> page,
         page_size |-> page_size,
         total_pages |-> TotalPages(total_count, page_size)]

\* a query parameter of lookup_single_document: absent (None) or a value
NotGiven(v) == [given |-> FALSE, value |-> v]
Given(v) == [given |-> TRUE, value |-> v]

\* Python truth of Optional[int] and of Optional[str]
TruthyInt(arg) == arg.given /\ arg.value # 0
TruthyStr(arg) == arg.given /\ arg.value # EmptyStr

\* the HTTP answer of a lookup: 200 with the document, or an error status
Answer(document) ==
    IF document = RaisedDatabaseError THEN [status |-> 400, document |-> None]
    ELSE IF document = None THEN [status |-> 404, document |-> None]
    ELSE [status |-> 200, document |-> document]

\* lookup_single_document
LookupSingleDocument(id, gcs_document_id, dify_document_id) ==
    IF ~(TruthyInt(id) \/ TruthyStr(gcs_document_id) \/ TruthyStr(dify_document_id))
    THEN [status |-> 422, document |-> None]
    ELSE IF TruthyInt(id) THEN Answer(GetDocument(id.value))
    ELSE IF TruthyStr(gcs_document_id)
         THEN Answer(GetDocumentByGcsId(gcs_document_id.value))
    ELSE Answer(GetDocumentByDifyId(dify_document_id.value))

----------------------------------------------------------------------------
(* Concurrent callers of the storage and document services *)

MaxDocs == 2
MaxClock == 2

\* every caller uploads a file of the same name
RepoFilename == << "a", ".", "p", "d", "f" >>

\* the bytes of the n-th upload
RepoContent(n) == << "bytes", n >>

\* the 200 answers of the provider: a document with its ids, or a body
\* without them, for which DifyResponse takes the defaults ''
DifyAnswers(n) ==
    { [document_id |-> << "dify_doc", n >>, upload_file_id |-> << "dify_file", n >>],
      [document_id |-> EmptyStr, upload_file_id |-> EmptyStr] }

\* upload_file up to `await file.read()`: the identifier and the object name
UploadFileBegin(c) ==
    /\ cl[c].pc = "idle"
    /\ Len(log) + Cardinality({d \in Clients : cl[d].pc = "store"}) < MaxDocs
    /\ cl' = [cl EXCEPT ![c] = [op |-> "ingest", pc |-> "store", document_id |-> Uuid4]]
    /\ next_uuid' = next_uuid + 1
    /\ UNCHANGED << ingestVars, chatVars, bucket, dify_docs, documents, response, now, log >>

\* blob.upload_from_string, and the identifier returned
UploadFileStore(c) ==
    /\ cl[c].pc = "store"
    /\ LET content == RepoContent(Len(log) + 1)
       IN  /\ bucket' = PutBlob([document_id |-> cl[c].document_id,
                                 filename |-> RepoFilename, content |-> content])
           /\ log' = Append(log, [document_id |-> cl[c].document_id, content |-> content])
    /\ cl' = [cl EXCEPT ![c] = [op |-> "ingest", pc |-> "dify",
                                gcs_document_id |-> cl[c].document_id]]
    /\ UNCHANGED << ingestVars, chatVars, dify_docs, documents, response, next_uuid, now >>

\* parse_document, whose answer touches no table, then DifyService.create_document
CreateByFile(c) ==
    /\ cl[c].pc = "dify"
    /\ \E answer \in DifyAnswers(cl[c].gcs_document_id[2]) :
          /\ dify_docs' = dify_docs \cup
                {[id |-> answer.document_id, upload_file_id |-> answer.upload_file_id,
                  name |-> RepoFilename, text |-> << "markdown" >>]}
          /\ cl' = [cl EXCEPT ![c] = [op |-> "ingest", pc |-> "db",
                      data |-> [filename |-> RepoFilename,
                                gcs_document_id |-> cl[c].gcs_document_id,
                                html_content |-> << "html" >>,
                                markdown_content |-> << "markdown" >>,
                                dify_document_id |-> answer.document_id,
                                dify_upload_file_id |-> answer.upload_file_id]]]
    /\ UNCHANGED << ingestVars, chatVars, bucket, documents, response, next_uuid, now, log >>

\* DocumentService.create_document: the row is added and committed
InsertDocument(c) ==
    /\ cl[c].pc = "db"
    /\ documents' = Append(documents, NewRow(cl[c].data))
    /\ cl' = [cl EXCEPT ![c] = ClientIdle]
    /\ UNCHANGED << ingestVars, chatVars, bucket, dify_docs, response, next_uuid, now, log >>

\* a stage after the storage upload raises: the request ends without a row
IngestFails(c) ==
    /\ cl[c].pc \in {"dify", "db"}
    /\ cl' = [cl EXCEPT ![c] = ClientIdle]
    /\ UNCHANGED << ingestVars, chatVars, bucket, dify_docs, documents, response,
                    next_uuid, now, log >>

\* variant: only a missing row is refused
SoftDeleteRefuses_MissingOnly(document) == document = None

\* `if not document or document.deleted_at: return False`
SoftDeleteRefuses(document) == document = None \/ Truthy(document.deleted_at)

\* what a caller of soft_delete_document observed of the row it read
Seen(document) ==
    IF document = None THEN "missing"
    ELSE IF IsNull(document.deleted_at) THEN "live" ELSE "deleted"

\* soft_delete_document up to its return False, or up to the commit
SoftDeleteGet(c) ==
    /\ cl[c].pc = "idle"
    /\ \E document_id \in 1..MaxDocs :
          LET document == SessionGet(document_id)
          IN  IF SoftDeleteRefuses(document)
              THEN /\ response' = [kind |-> "soft_delete", document_id |-> document_id,
                                   seen |-> Seen(document), result |-> FALSE]
                   /\ cl' = cl
              ELSE /\ cl' = [cl EXCEPT ![c] = [op |-> "soft_delete", pc |-> "commit",
                                               document_id |-> document_id,
                                               seen |-> Seen(document)]]
                   /\ response' = response
    /\ UNCHANGED << ingestVars, chatVars, bucket, dify_docs, documents, next_uuid, now, log >>

\* variant: the update also blanks the file name of the row
MarkDeleted_BlanksFilename(document, t) ==
    [document EXCEPT !.deleted_at = t, !.filename = << >>]

\* document.deleted_at = datetime.utcnow()
MarkDeleted(document, t) == [document EXCEPT !.deleted_at = t]

\* the assignment of deleted_at; commit; return True
SoftDeleteCommit(c) ==
    /\ cl[c].pc = "commit"
    /\ LET k == CHOOSE j \in DOMAIN documents : documents[j].id = cl[c].document_id
       IN  documents' = [documents EXCEPT ![k] = MarkDeleted(documents[k], now)]
    /\ response' = [kind |-> "soft_delete", document_id |-> cl[c].document_id,
                    seen |-> cl[c].seen, result |-> TRUE]
    /\ cl' = [cl EXCEPT ![c] = ClientIdle]
    /\ UNCHANGED << ingestVars, chatVars, bucket, dify_docs, next_uuid, now, log >>

\* StorageService.delete_file for an identifier upload_file returned
DeleteFile(c) ==
    /\ cl[c].pc = "idle"
    /\ \E n \in DOMAIN log :
          LET document_id == log[n].document_id
              blobs == ListBlobs(DeleteFilePrefix(document_id))
          IN  /\ bucket' = bucket \ blobs
              /\ response' = [kind |-> "delete_file", document_id |-> document_id,
                              stored |-> ListBlobs(GetFilePrefix(document_id)) # {},
                              deleted |-> blobs # {}]
    /\ UNCHANGED << ingestVars, repoVars, chatVars, dify_docs, documents, next_uuid, now, log >>

\* the answer of DELETE /documents/{id}, with whether this request's own
\* commit set the deletion timestamp
DeleteAnswer(document_id, status, turned) ==
    [kind |-> "delete_route", document_id |-> document_id, status |-> status,
     turned |-> turned]

\* delete_document, lines 60-69: get_document, 404 when it returns None
DeleteRouteGet(c) ==
    /\ cl[c].pc = "idle"
    /\ \E document_id \in 1..MaxDocs :
          IF GetDocument(document_id) = None
          THEN /\ response' = DeleteAnswer(document_id, 404, FALSE)
               /\ cl' = cl
          ELSE /\ cl' = [cl EXCEPT ![c] = [op |-> "delete_route", pc |-> "route_get",
                                           document_id |-> document_id]]
               /\ response' = response
    /\ UNCHANGED << ingestVars, chatVars, bucket, dify_docs, documents, next_uuid, now, log >>

\* line 71: soft_delete_document up to its return False or up to the commit;
\* the route ignores the result and returns True (line 72)
DeleteRouteSoftGet(c) ==
    /\ cl[c].pc = "route_get"
    /\ IF SoftDeleteRefuses(SessionGet(cl[c].document_id))
       THEN /\ response' = DeleteAnswer(cl[c].document_id, 200, FALSE)
            /\ cl' = [cl EXCEPT ![c] = ClientIdle]
       ELSE /\ cl' = [cl EXCEPT ![c].pc = "route_commit"]
            /\ response' = response
    /\ UNCHANGED << ingestVars, chatVars, bucket, dify_docs, documents, next_uuid, now, log >>

\* soft_delete_document's assignment and commit; the route returns True
DeleteRouteCommit(c) ==
    /\ cl[c].pc = "route_commit"
    /\ LET k == CHOOSE j \in DOMAIN documents : documents[j].id = cl[c].document_id
       IN  /\ documents' = [documents EXCEPT ![k] = MarkDeleted(documents[k], now)]
           /\ response' = DeleteAnswer(cl[c].document_id, 200,
                                       IsNull(documents[k].deleted_at))
    /\ cl' = [cl EXCEPT ![c] = ClientIdle]
    /\ UNCHANGED << ingestVars, chatVars, bucket, dify_docs, next_uuid, now, log >>

\* the clock of created_at and utcnow() moves on
Tick ==
    /\ now < MaxClock
    /\ now' = now + 1
    /\ UNCHANGED << ingestVars, repoVars, chatVars, bucket, dify_docs, documents, response,
                    next_uuid, log >>

RepoInit ==
    /\ upload = [filename |-> RepoFilename, is_pdf |-> TRUE, total_pages |-> 1,
                 file_size |-> 1]
    /\ pc = "done"
    /\ session_files = {}
    /\ temp_files = << >>
    /\ sp = SpInit
    /\ job = JobInit
    /\ bucket = {}
    /\ dify_docs = {}
    /\ documents = << >>
    /\ results = << >>
    /\ response = NoResponse
    /\ next_uuid = 1
    /\ now = 1
    /\ split_parts = << >>
    /\ log = << >>
    /\ cl = [c \in Clients |-> ClientIdle]
    /\ chat = ChatIdle
    /\ users = {}
    /\ user_logs = << >>

RepoNext ==
    \/ \E c \in Clients : UploadFileBegin(c)
    \/ \E c \in Clients : UploadFileStore(c)
    \/ \E c \in Clients : CreateByFile(c)
    \/ \E c \in Clients : InsertDocument(c)
    \/ \E c \in Clients : IngestFails(c)
    \/ \E c \in Clients : SoftDeleteGet(c)
    \/ \E c \in Clients : SoftDeleteCommit(c)
    \/ \E c \in Clients : DeleteFile(c)
    \/ \E c \in Clients : DeleteRouteGet(c)
    \/ \E c \in Clients : DeleteRouteSoftGet(c)
    \/ \E c \in Clients : DeleteRouteCommit(c)
    \/ Tick

RepoSpec == RepoInit /\ [][RepoNext]_vars

----------------------------------------------------------------------------
(* Properties of the document table and of the object store *)

MaxPage == 3
MaxPageSize == 2

\* a lookup result that is the document of this row
Returns(result, row) ==
    /\ result # None
    /\ result # RaisedDatabaseError
    /\ result.id = row.id

\* table positions of the rows whose deletion timestamp is unset / set
LivePositions == {k \in DOMAIN documents : documents[k].deleted_at = 0}
DeletedPositions == DOMAIN documents \ LivePositions

\* C11: a Document whose deletion timestamp is set is returned by none of
\* get_document, get_document_by_gcs_id, get_document_by_dify_id,
\* get_document_file and list_documents, is not counted in the list total, and
\* its row is still in the table.
C11_DeletedAbsent ==
    \A k \in DeletedPositions :
        LET row == documents[k]
        IN  /\ GetDocument(row.id) = None
            /\ ~Returns(GetDocumentByGcsId(row.gcs_document_id), row)
            /\ ~Returns(GetDocumentByDifyId(row.dify_document_id), row)
            /\ GetDocumentFile(row.id) = None
            /\ \A page \in 1..MaxPage, page_size \in 1..MaxPageSize, tie \in Ties :
                  LET r == ListDocuments(page, page_size, tie)
                  IN  /\ \A j \in DOMAIN r.items : r.items[j].id # row.id
                      /\ r.total = Cardinality(LivePositions)
            /\ SessionGet(row.id) = row

\* a soft-deleted row beside a live one, its file still in the object store
C11_Witness ==
    \E k \in DeletedPositions :
        /\ LivePositions # {}
        /\ GetFile(documents[k].gcs_document_id) # None

\* a step in which a call of soft_delete_document returns
SoftDeleteReturns ==
    /\ response'.kind = "soft_delete"
    /\ \/ response' # response
       \/ \E c \in Clients : cl[c].pc = "commit" /\ cl'[c].pc = "idle"

\* C12: soft_delete_document returns true and sets the deletion timestamp only
\* when the row it read exists and is live; on a missing or already deleted id
\* it returns false and changes no row, so a second application changes nothing.
C12_SoftDeleteOnlyLive ==
    [][SoftDeleteReturns =>
        LET r == response'
            hit == {k \in DOMAIN documents : documents[k].id = r.document_id}
        IN  /\ r.result = (r.seen = "live")
            /\ ~r.result =>
                  /\ documents' = documents
                  /\ \A k \in hit : documents[k].deleted_at # 0
            /\ r.result =>
                  /\ hit # {}
                  /\ \A k \in hit : documents'[k].deleted_at # 0
                  /\ \A k \in hit : documents' = [documents EXCEPT ![k].deleted_at =
                                                      documents'[k].deleted_at]
    ]_vars

\* a second soft delete of the same row has returned false
C12_Witness ==
    /\ response.kind = "soft_delete"
    /\ response.seen = "deleted"
    /\ response.result = FALSE
    /\ \E k \in DeletedPositions : documents[k].id = response.document_id

\* C13: for every live Document the lookups by numeric id, by storage id and by
\* index document id each succeed and return the same record.
C13_LookupsAgree ==
    \A k \in LivePositions :
        LET row == documents[k]
        IN  /\ GetDocument(row.id) = DocumentOf(row)
            /\ GetDocumentByGcsId(row.gcs_document_id) = DocumentOf(row)
            /\ GetDocumentByDifyId(row.dify_document_id) = DocumentOf(row)

\* the 0-based positions a page covers, of n ordered documents
PagePositions(page, page_size, n) ==
    {p \in ((page - 1) * page_size)..(page * page_size - 1) : p < n}

\* C14: list_documents(page, page_size), page >= 1 and page_size >= 1, returns
\* the live documents in descending creation time restricted to positions
\* (page-1)*page_size .. page*page_size-1 (at most page_size items), total is
\* the number of live documents and total_pages = ceil(total / page_size);
\* page 2 of size 10 over 25 documents has 10 items and total_pages 3.
C14_Pagination ==
    /\ \A page \in 1..MaxPage, page_size \in 1..MaxPageSize, tie \in Ties :
          LET r == ListDocuments(page, page_size, tie)
              n == Cardinality(LivePositions)
              first == (page - 1) * page_size
          IN  /\ r.total = n
              /\ r.total_pages = CeilDiv(n, page_size)
              /\ Len(r.items) <= page_size
              /\ Len(r.items) = Cardinality(PagePositions(page, page_size, n))
              /\ \A j \in DOMAIN r.items :
                    /\ \E k \in LivePositions : r.items[j] = ListItem(documents[k])
                    \* position first+j-1 of a descending order: at most that many
                    \* live documents are newer, more than that many are as new
                    /\ Cardinality({k \in LivePositions :
                           documents[k].created_at > r.items[j].created_at}) <= first + j - 1
                    /\ Cardinality({k \in LivePositions :
                           documents[k].created_at >= r.items[j].created_at}) > first + j - 1
              /\ \A i, j \in DOMAIN r.items :
                    i < j => /\ r.items[i].created_at >= r.items[j].created_at
                             /\ r.items[i].id # r.items[j].id
    /\ WindowCount(25, ListOffset(2, 10), 10) = 10
    /\ TotalPages(25, 10) = 3

\* two live documents of different creation times: page 2 of size 1 holds the older
C14_Witness ==
    /\ Cardinality(LivePositions) = 2
    /\ \E i, j \in LivePositions : documents[i].created_at < documents[j].created_at
    /\ Len(ListDocuments(2, 1, "asc").items) = 1

\* the arguments a caller of GET /documents/single can supply
IdArgs == {NotGiven(0)} \cup {Given(i) : i \in 1..(MaxDocs + 1)}
GcsArgs ==
    {NotGiven(EmptyStr)} \cup {Given(<< "uuid", n >>) : n \in 0..MaxDocs}
DifyArgs ==
    {NotGiven(EmptyStr)} \cup {Given(<< "dify_doc", n >>) : n \in 0..MaxDocs}

\* the live documents an identifier matches
MatchesById(arg) ==
    {DocumentOf(documents[k]) : k \in
        {j \in LivePositions : arg.given /\ documents[j].id = arg.value}}
MatchesByGcs(arg) ==
    {DocumentOf(documents[k]) : k \in
        {j \in LivePositions : arg.given /\ documents[j].gcs_document_id = arg.value}}
MatchesByDify(arg) ==
    {DocumentOf(documents[k]) : k \in
        {j \in LivePositions : arg.given /\ documents[j].dify_document_id = arg.value}}

\* the matches of the first identifier, in priority order, that matches at all
FirstMatch(id, gcs, dify) ==
    IF MatchesById(id) # {} THEN MatchesById(id)
    ELSE IF MatchesByGcs(gcs) # {} THEN MatchesByGcs(gcs)
    ELSE MatchesByDify(dify)

\* C15: GET /documents/single tries the supplied identifiers in the order
\* numeric id, storage id, index id and returns the first that matches a live
\* document; it signals not-found only when none is supplied or none matches.
C15_FirstMatchReturned ==
    \A id \in IdArgs, gcs \in GcsArgs, dify \in DifyArgs :
        LET r == LookupSingleDocument(id, gcs, dify)
            expected == FirstMatch(id, gcs, dify)
        IN  IF expected = {}
            THEN r.status \in {404, 422}
            ELSE r.status = 200 /\ r.document \in expected

\* C16: for an identifier S returned by upload_file, delete_file(S) removes
\* every object stored under S and returns true exactly when it removed one;
\* after it get_file(S) finds no object.
C16_DeleteRemovesObjects ==
    response.kind = "delete_file" =>
        /\ response.deleted = response.stored
        /\ GetFile(response.document_id) = None

\* identifiers generated by upload_file calls that have not yet returned
InFlightIds == {cl[c].document_id : c \in {d \in Clients : cl[d].pc = "store"}}

\* C17: no two storage uploads return the same identifier, no two Document
\* rows share a storage id, and no upload overwrites another upload's object.
C17_FreshStorageIds ==
    /\ \A i, j \in DOMAIN log : i # j => log[i].document_id # log[j].document_id
    /\ \A c, d \in Clients :
          (c # d /\ cl[c].pc = "store" /\ cl[d].pc = "store")
              => cl[c].document_id # cl[d].document_id
    /\ \A n \in DOMAIN log : log[n].document_id \notin InFlightIds
    /\ \A i, j \in DOMAIN documents :
          i # j => documents[i].gcs_document_id # documents[j].gcs_document_id
    /\ \A n \in DOMAIN log : \A b \in bucket :
          b.document_id = log[n].document_id => b.content = log[n].content

\* two uploads of the same file name overlapped: the one that generated its
\* identifier later stored first; both became rows
C17_Witness ==
    /\ Len(log) = 2
    /\ log[1].document_id[2] > log[2].document_id[2]
    /\ Len(documents) = 2
    /\ Cardinality(bucket) = 2
    /\ \A b \in bucket : b.filename = RepoFilename

----------------------------------------------------------------------------
(* Chat routes: JWTBearer, the route handlers and ChatService.send_chat_message *)

MaxChunks == 2
MaxLogs == 2

DigitChars == {Digit(d) : d \in 0..9}

DigitValue(c) == CHOOSE d \in 0..9 : Digit(d) = c

\* int(s) raises no ValueError: an optional sign, then decimal digits
IsIntLiteral(s) ==
    LET body == IF s # << >> /\ s[1] \in {"+", "-"} THEN Tail(s) ELSE s
    IN  /\ body # << >>
        /\ \A n \in DOMAIN body : body[n] \in DigitChars

RECURSIVE DigitsValue(_)
DigitsValue(body) ==
    IF body = << >> THEN 0
    ELSE 10 * DigitsValue(SubSeq(body, 1, Len(body) - 1)) + DigitValue(body[Len(body)])

\* int(s) of a literal
PyInt(s) ==
    IF s[1] = "-" THEN 0 - DigitsValue(Tail(s))
    ELSE IF s[1] = "+" THEN DigitsValue(Tail(s))
    ELSE DigitsValue(s)

\* str(uuid4()) of the users row, and one of no row: hex groups joined by "-"
UserUuid == << "1", "f", "-", "4", "2" >>
UnknownUuid == << "7", "0", "-", "0", "0" >>

\* the users table
ChatUsers == {[id |-> 1, uuid |-> UserUuid, username |-> << "a", "n", "n" >>]}

\* create_access_token(data): a signed, unexpired token with data's subject
CreateAccessToken(sub) == [kind |-> "valid", sub |-> sub]

\* the access_token of a successful POST /users/login of each user
LoginTokens == {CreateAccessToken(u.username) : u \in ChatUsers}

\* what a request can carry as Authorization
Tokens ==
    [kind : {"absent", "not_bearer", "malformed", "bad_signature", "expired"},
     sub : {EmptyStr}]
    \cup [kind : {"valid"}, sub : {UserUuid, UnknownUuid}]
    \cup LoginTokens

\* user_id values of direct callers of the service
ServiceUserIds == {<< "7" >>, << "1", "2" >>, UserUuid}

ChatRoutes == {"messages", "conversations"}

\* statuses of the provider's initial response
ProviderStatuses == {200, 204, 404, 503}

\* the status of fastapi's HTTPBearer(auto_error=True) when the header is
\* missing or not a bearer credential: 403, or 401 in later releases
HTTPBearerStatuses == {401, 403}

NoError == [type |-> "none", status_code |-> 0]

\* ServiceError.__init__(message, status_code=500)
DifyAPIError(status_code) == [type |-> "DifyAPIError", status_code |-> status_code]
DefaultStatusCode == 500

ChatStart(entry, route, token, user_id, at) ==
    [pc |-> at, entry |-> entry, route |-> route, token |-> token, user_id |-> user_id,
     status |-> 0, handler_entered |-> FALSE, provider_calls |-> 0, provider_status |-> 0,
     chunks |-> 0, left |-> 0, error |-> NoError, task |-> "none"]

\* a request to a chat route arrives
ReceiveRequest ==
    /\ chat.pc = "idle"
    /\ \E route \in ChatRoutes, token \in Tokens :
          chat' = ChatStart("route", route, token, EmptyStr, "bearer")
    /\ UNCHANGED << ingestVars, repoVars, bucket, dify_docs, documents, response, next_uuid,
                    now, log, users, user_logs >>

\* send_chat_message is iterated by a caller other than the route
CallService ==
    /\ chat.pc = "idle"
    /\ \E user_id \in ServiceUserIds :
          chat' = ChatStart("service", "messages", [kind |-> "absent", sub |-> EmptyStr],
                            user_id, "log")
    /\ UNCHANGED << ingestVars, repoVars, bucket, dify_docs, documents, response, next_uuid,
                    now, log, users, user_logs >>

\* the request is answered with an error status before the handler
Reject(status) == chat' = [chat EXCEPT !.pc = "done", !.status = status]

\* await super().__call__(request)
HTTPBearerCall ==
    /\ chat.pc = "bearer"
    /\ IF chat.token.kind \in {"absent", "not_bearer"}
       THEN \E status \in HTTPBearerStatuses : Reject(status)
       ELSE chat' = [chat EXCEPT !.pc = "decode"]
    /\ UNCHANGED << ingestVars, repoVars, bucket, dify_docs, documents, response, next_uuid,
                    now, log, users, user_logs >>

\* jwt.decode and the except clauses for its errors
JwtDecode ==
    /\ chat.pc = "decode"
    /\ IF chat.token.kind = "valid"
       THEN chat' = [chat EXCEPT !.pc = "profile"]
       ELSE Reject(401)
    /\ UNCHANGED << ingestVars, repoVars, bucket, dify_docs, documents, response, next_uuid,
                    now, log, users, user_logs >>

\* get_user_profile_from_token; request.state.user = user_profile
GetUserProfileFromToken ==
    /\ chat.pc = "profile"
    /\ IF \E u \in users : u.uuid = chat.token.sub
       THEN chat' = [chat EXCEPT !.pc = "handler",
                        !.user_id = (CHOOSE u \in users : u.uuid = chat.token.sub).uuid]
       ELSE Reject(401)
    /\ UNCHANGED << ingestVars, repoVars, bucket, dify_docs, documents, response, next_uuid,
                    now, log, users, user_logs >>

\* a request to GET /users/profile arrives
ReceiveProfileRequest ==
    /\ chat.pc = "idle"
    /\ \E token \in Tokens :
          chat' = ChatStart("profile_route", "profile", token, EmptyStr, "current_user")
    /\ UNCHANGED << ingestVars, repoVars, bucket, dify_docs, documents, response, next_uuid,
                    now, log, users, user_logs >>

\* oauth2_scheme and auth_middleware.get_current_user: decode the token,
\* look the subject up as a username; then get_profile answers
GetCurrentUser ==
    /\ chat.pc = "current_user"
    /\ IF chat.token.kind = "valid" /\ \E u \in users : u.username = chat.token.sub
       THEN chat' = [chat EXCEPT !.pc = "done", !.handler_entered = TRUE, !.status = 200,
                        !.user_id = (CHOOSE u \in users : u.username = chat.token.sub).uuid]
       ELSE Reject(401)
    /\ UNCHANGED << ingestVars, repoVars, bucket, dify_docs, documents, response, next_uuid,
                    now, log, users, user_logs >>

\* list_conversations: the provider is asked and its answer relayed
ListConversations ==
    /\ chat.pc = "handler" /\ chat.route = "conversations"
    /\ \E status \in ProviderStatuses :
          chat' = [chat EXCEPT !.pc = "done", !.handler_entered = TRUE,
                      !.provider_calls = chat.provider_calls + 1,
                      !.provider_status = status,
                      !.status = IF status # 200 THEN 500 ELSE 200]
    /\ UNCHANGED << ingestVars, repoVars, bucket, dify_docs, documents, response, next_uuid,
                    now, log, users, user_logs >>

\* the route send_chat_message returns the StreamingResponse; its body is
\* the generator, started with user_id = str(request.state.user["uuid"])
SendChatMessageRoute ==
    /\ chat.pc = "handler" /\ chat.route = "messages"
    /\ chat' = [chat EXCEPT !.pc = "log", !.handler_entered = TRUE, !.status = 200]
    /\ UNCHANGED << ingestVars, repoVars, bucket, dify_docs, documents, response, next_uuid,
                    now, log, users, user_logs >>

\* the generator ends with an exception
RaiseInStream(error) == chat' = [chat EXCEPT !.pc = "done", !.error = error]

\* payload; asyncio.create_task(log_activity(user_id=int(user_id), ...)):
\* a ValueError of int() is wrapped by `except Exception`
ScheduleLogActivity ==
    /\ chat.pc = "log"
    /\ IF IsIntLiteral(chat.user_id)
       THEN chat' = [chat EXCEPT !.pc = "post", !.task = "pending"]
       ELSE RaiseInStream(DifyAPIError(DefaultStatusCode))
    /\ UNCHANGED << ingestVars, repoVars, bucket, dify_docs, documents, response, next_uuid,
                    now, log, users, user_logs >>

\* variant: only server errors abort the stream
IsFailureStatus_ServerOnly(status) == status >= 500

\* response.status != 200
IsFailureStatus(status) == status # 200

\* session.post(...), then the status test
ProviderPost ==
    /\ chat.pc = "post"
    /\ \E status \in ProviderStatuses, lines \in 0..MaxChunks :
          IF IsFailureStatus(status)
          THEN chat' = [chat EXCEPT !.pc = "done", !.error = DifyAPIError(status),
                           !.provider_calls = chat.provider_calls + 1,
                           !.provider_status = status]
          ELSE chat' = [chat EXCEPT !.pc = "stream", !.left = lines,
                           !.provider_calls = chat.provider_calls + 1,
                           !.provider_status = status]
    /\ UNCHANGED << ingestVars, repoVars, bucket, dify_docs, documents, response, next_uuid,
                    now, log, users, user_logs >>

\* async for line in response.content: yield line.decode('utf-8')
StreamLine ==
    /\ chat.pc = "stream" /\ chat.left > 0
    /\ chat' = [chat EXCEPT !.chunks = chat.chunks + 1, !.left = chat.left - 1]
    /\ UNCHANGED << ingestVars, repoVars, bucket, dify_docs, documents, response, next_uuid,
                    now, log, users, user_logs >>

\* the response body is exhausted: the generator returns
StreamEnd ==
    /\ chat.pc = "stream" /\ chat.left = 0
    /\ chat' = [chat EXCEPT !.pc = "done"]
    /\ UNCHANGED << ingestVars, repoVars, bucket, dify_docs, documents, response, next_uuid,
                    now, log, users, user_logs >>

\* the connection breaks while streaming: wrapped by `except Exception`
StreamFails ==
    /\ chat.pc = "stream"
    /\ RaiseInStream(DifyAPIError(DefaultStatusCode))
    /\ UNCHANGED << ingestVars, repoVars, bucket, dify_docs, documents, response, next_uuid,
                    now, log, users, user_logs >>

\* the background task runs UserService.log_activity: the row is committed,
\* or DatabaseError is raised inside the task, which nobody awaits
LogActivityRun ==
    /\ chat.pc # "idle" /\ chat.task = "pending"
    /\ \E ok \in BOOLEAN :
          IF ok /\ Len(user_logs) < MaxLogs
          THEN /\ user_logs' = Append(user_logs, [user_id |-> PyInt(chat.user_id),
                                                  action |-> "chat_message"])
               /\ chat' = [chat EXCEPT !.task = "done"]
          ELSE /\ user_logs' = user_logs
               /\ chat' = [chat EXCEPT !.task = "failed"]
    /\ UNCHANGED << ingestVars, repoVars, bucket, dify_docs, documents, response, next_uuid,
                    now, log, users >>

\* the request is over and its task has run: the next request can arrive
NextRequest ==
    /\ chat.pc = "done" /\ chat.task # "pending"
    /\ chat' = ChatIdle
    /\ UNCHANGED << ingestVars, repoVars, bucket, dify_docs, documents, response, next_uuid,
                    now, log, users, user_logs >>

ChatInit ==
    /\ upload = [filename |-> RepoFilename, is_pdf |-> TRUE, total_pages |-> 1,
                 file_size |-> 1]
    /\ pc = "done"
    /\ session_files = {}
    /\ temp_files = << >>
    /\ sp = SpInit
    /\ job = JobInit
    /\ bucket = {}
    /\ dify_docs = {}
    /\ documents = << >>
    /\ results = << >>
    /\ response = NoResponse
    /\ next_uuid = 1
    /\ now = 1
    /\ split_parts = << >>
    /\ log = << >>
    /\ cl = [c \in Clients |-> ClientIdle]
    /\ chat = ChatIdle
    /\ users = ChatUsers
    /\ user_logs = << >>

ChatNext ==
    \/ ReceiveRequest
    \/ CallService
    \/ HTTPBearerCall
    \/ JwtDecode
    \/ GetUserProfileFromToken
    \/ ReceiveProfileRequest
    \/ GetCurrentUser
    \/ ListConversations
    \/ SendChatMessageRoute
    \/ ScheduleLogActivity
    \/ ProviderPost
    \/ StreamLine
    \/ StreamEnd
    \/ StreamFails
    \/ LogActivityRun
    \/ NextRequest

ChatSpec == ChatInit /\ [][ChatNext]_vars

----------------------------------------------------------------------------
(* Properties of the chat routes *)

\* a 2xx status
IsSuccessStatus(status) == status \in 200..299

\* a call of ChatService.send_chat_message that reached the provider
ProviderAnswered == chat.pc # "idle" /\ chat.route = "messages" /\ chat.provider_calls > 0

\* C18: in send_chat_message, when the provider's initial response is not a
\* success status the stream ends with a DifyAPIError that carries that status,
\* and no chunk was yielded before the error.
C18_FailureBeforeAnyChunk ==
    (ProviderAnswered /\ ~IsSuccessStatus(chat.provider_status)) =>
        /\ chat.pc = "done"
        /\ chat.error = DifyAPIError(chat.provider_status)
        /\ chat.chunks = 0

\* the provider answered 404 and the stream has ended with the typed error
C18_Witness ==
    /\ ProviderAnswered
    /\ chat.provider_status = 404
    /\ chat.pc = "done"
    /\ chat.error.type = "DifyAPIError"

\* C19: no failure of the activity-logging step (building its arguments,
\* scheduling it, the log write) changes the outcome of the chat request: for
\* every authenticated caller the route passes in, the provider call is made.
C19_LogFailureHarmless ==
    (/\ chat.pc = "done"
     /\ chat.entry = "route"
     /\ chat.route = "messages"
     /\ chat.handler_entered) => chat.provider_calls = 1

\* the token is well formed, signed, unexpired and its subject is a user
TokenAccepted(token) == token.kind = "valid" /\ \E u \in users : u.uuid = token.sub

\* C20: a request to a chat route with no bearer token, a malformed, wrongly
\* signed or expired token, or a token whose subject is no user is answered
\* 401; the handler is not entered and the provider is not called.
C20_InvalidTokenIs401 ==
    (/\ chat.pc = "done"
     /\ chat.entry = "route"
     /\ ~TokenAccepted(chat.token)) =>
        /\ chat.status = 401
        /\ ~chat.handler_entered
        /\ chat.provider_calls = 0

----------------------------------------------------------------------------
(* UserService.create_user and update_password, called concurrently *)

MaxUsers == 2

\* what stays as it is in every step of the user service
userFrame == << ingestVars, bucket, dify_docs, documents, next_uuid, now, log, chat >>

\* usernames and passwords of the calls: valid ones, and ones too short
Usernames == { << "a", "n", "n" >>, << "b", "o", "b" >>, << "a", "b" >> }
Passwords == { << "s", "e", "c", "r", "e", "t" >>, << "p", "w" >> }

\* bcrypt.hash(password)
HashPassword(password) == << "bcrypt", password >>

\* get_user_by_username(username) finds a row
UsernameExists(username) == \E u \in users : u.username = username

\* the checks of lines 54-61 raise DatabaseError
CreateUserRejects(username, password) ==
    \/ UsernameExists(username)
    \/ username = << >> \/ Len(username) < 3
    \/ password = << >> \/ Len(password) < 6

\* variant: the username column without its unique index
UniqueViolation_None(username) == FALSE

\* UserDB.username unique=True: the INSERT of an existing username fails
UniqueViolation(username) == \E u \in users : u.username = username

\* the UserDB row: autoincrement id, uuid default, created_at/updated_at defaults
NewUserRow(username, password) ==
    [id |-> Cardinality(users) + 1,
     uuid |-> << "uuid", Cardinality(users) + 1 >>,
     username |-> username,
     password_hash |-> HashPassword(password),
     updated_at |-> now]

\* the answer of a user-service call, with what the call observed and wrote
UserReply(kind, ok, call, added) ==
    [kind |-> kind, ok |-> ok, stage |-> call.pc, username |-> call.username,
     existed |-> call.existed, added |-> added]

\* create_user, lines 52-61: the lookup and the validations
CreateUserCheck(c) ==
    /\ cl[c].pc = "idle"
    /\ Cardinality(users) + Cardinality({d \in Clients : cl[d].op = "create_user"}) < MaxUsers
    /\ \E username \in Usernames, password \in Passwords :
          LET call == [op |-> "create_user", pc |-> "insert", username |-> username,
                       password |-> password, existed |-> UsernameExists(username)]
          IN  IF CreateUserRejects(username, password)
              THEN /\ response' = UserReply("create_user", FALSE,
                                      [call EXCEPT !.pc = "check"], FALSE)
                   /\ cl' = cl
              ELSE /\ cl' = [cl EXCEPT ![c] = call]
                   /\ response' = response
    /\ UNCHANGED << userFrame, users, user_logs >>

\* lines 66-72: session.add(db_user); commit. The commit fails for an
\* existing username, or for a reason of the database's own; then rollback
CreateUserInsert(c) ==
    /\ cl[c].op = "create_user" /\ cl[c].pc = "insert"
    /\ \E db_ok \in BOOLEAN :
          IF UniqueViolation(cl[c].username) \/ ~db_ok
          THEN /\ response' = UserReply("create_user", FALSE,
                                  [cl[c] EXCEPT !.existed =
                                      @ \/ \E u \in users : u.username = cl[c].username],
                                  FALSE)
               /\ cl' = [cl EXCEPT ![c] = ClientIdle]
               /\ users' = users
          ELSE /\ users' = users \cup {NewUserRow(cl[c].username, cl[c].password)}
               /\ cl' = [cl EXCEPT ![c].pc = "log"]
               /\ response' = response
    /\ UNCHANGED << userFrame, user_logs >>

\* lines 73-96: refresh; session.add(log); commit; return the user. If this
\* fails, rollback undoes the log only: the user row was committed before
CreateUserLog(c) ==
    /\ cl[c].op = "create_user" /\ cl[c].pc = "log"
    /\ \E db_ok \in BOOLEAN :
          IF db_ok
          THEN /\ user_logs' = Append(user_logs, [action |-> "create_user",
                                                  details |-> cl[c].username])
               /\ response' = UserReply("create_user", TRUE, cl[c], TRUE)
          ELSE /\ user_logs' = user_logs
               /\ response' = UserReply("create_user", FALSE, cl[c], TRUE)
    /\ cl' = [cl EXCEPT ![c] = ClientIdle]
    /\ UNCHANGED << userFrame, users >>

\* update_password, lines 116-118: session.get; return False for no row
UpdatePasswordGet(c) ==
    /\ cl[c].pc = "idle"
    /\ Len(user_logs) < MaxLogs
    /\ \E user_id \in 1..MaxUsers, password \in Passwords :
          IF \E u \in users : u.id = user_id
          THEN /\ cl' = [cl EXCEPT ![c] = [op |-> "update_password", pc |-> "commit",
                                            user_id |-> user_id, password |-> password,
                                            username |-> << >>, existed |-> TRUE]]
               /\ response' = response
          ELSE /\ response' = [kind |-> "update_password", ok |-> TRUE, stage |-> "get",
                               username |-> << >>, existed |-> FALSE, added |-> FALSE]
               /\ cl' = cl
    /\ UNCHANGED << userFrame, users, user_logs >>

\* lines 120-135: the new hash, updated_at and the log row in one commit
UpdatePasswordCommit(c) ==
    /\ cl[c].op = "update_password" /\ cl[c].pc = "commit"
    /\ \E db_ok \in BOOLEAN :
          IF db_ok /\ Len(user_logs) < MaxLogs
          THEN /\ users' = {IF u.id = cl[c].user_id
                            THEN [u EXCEPT !.password_hash = HashPassword(cl[c].password),
                                           !.updated_at = now]
                            ELSE u : u \in users}
               /\ user_logs' = Append(user_logs, [action |-> "update_password",
                                                  details |-> << >>])
               /\ response' = UserReply("update_password", TRUE, cl[c], TRUE)
          ELSE /\ users' = users
               /\ user_logs' = user_logs
               /\ response' = UserReply("update_password", FALSE, cl[c], FALSE)
    /\ cl' = [cl EXCEPT ![c] = ClientIdle]
    /\ UNCHANGED userFrame

UserInit ==
    /\ upload = [filename |-> RepoFilename, is_pdf |-> TRUE, total_pages |-> 1,
                 file_size |-> 1]
    /\ pc = "done"
    /\ session_files = {}
    /\ temp_files = << >>
    /\ sp = SpInit
    /\ job = JobInit
    /\ bucket = {}
    /\ dify_docs = {}
    /\ documents = << >>
    /\ results = << >>
    /\ response = NoResponse
    /\ next_uuid = 1
    /\ now = 1
    /\ split_parts = << >>
    /\ log = << >>
    /\ cl = [c \in Clients |-> ClientIdle]
    /\ chat = ChatIdle
    /\ users = {}
    /\ user_logs = << >>

UserNext ==
    \/ \E c \in Clients : CreateUserCheck(c)
    \/ \E c \in Clients : CreateUserInsert(c)
    \/ \E c \in Clients : CreateUserLog(c)
    \/ \E c \in Clients : UpdatePasswordGet(c)
    \/ \E c \in Clients : UpdatePasswordCommit(c)

UserSpec == UserInit /\ [][UserNext]_vars

----------------------------------------------------------------------------
(* Claims about the user service *)

\* the last call to return was a create_user call
CreateUserReturned == response.kind = "create_user"

\* C21: no two User rows ever have the same username, whatever the
\* interleaving of create_user calls, and a create_user call for a username
\* that exists (when it looks it up, or by the time it inserts) fails with
\* an error and adds no row
C21_UsernameUnique ==
    /\ \A u, v \in users : u.username = v.username => u = v
    /\ (CreateUserReturned /\ response.existed)
          => (~response.ok /\ ~response.added)

\* two calls passed the lookup with the same username; the second to insert
\* was refused by the unique index
C21_Witness ==
    /\ CreateUserReturned
    /\ response.stage = "insert"
    /\ response.existed
    /\ ~response.ok
    /\ \E u \in users : u.username = response.username

\* C22: a create_user or update_password call that ends in an error has
\* left none of its rows behind
C22_ErrorWritesNothing ==
    (response.kind \in {"create_user", "update_password"} /\ ~response.ok)
        => ~response.added

----------------------------------------------------------------------------
(* Claims about the upload route's answers and the pipeline's failures *)

\* the stage event that ended the request, when a stage failed
FailedEvents == {a \in DOMAIN log : ~log[a].ok}

\* C23: a failing upload is answered 400 when the file type is invalid and
\* 500 when a provider call or the database insert fails, never with a
\* success status
C23_UploadErrorStatuses ==
    \A a \in FailedEvents :
        RequestDone =>
            /\ response.kind = "raised"
            /\ response.status = IF log[a].op = "validate" THEN 400 ELSE 500


\* split_if_needed ended in its except clause
SplitFailed == sp.outcome = "error"

\* C25: when reading the PDF or building or writing a part fails inside
\* split_if_needed, the call raises the PDF-processing error, hands no part
\* path to the caller (no stage runs), and the stored copy of the upload is
\* gone
C25_SplitFailureCleansUpload ==
    SplitFailed =>
        /\ RequestDone
        /\ response.kind = "raised"
        /\ temp_files = << >>
        /\ log = << >>
        /\ \A f \in session_files : f.name # PathName(upload.filename)

\* the failure came after a part file had been written
C25_Witness ==
    /\ SplitFailed
    /\ split_parts # << >>
    /\ \E f \in session_files : f.name = split_parts[1].name


\* the storage object written by the storage event at position a of the log
StoredObjectOf(a) == {b \in bucket : b.document_id = log[a].val.document_id}

\* the indexed document created by the indexing event at position a
IndexedDocumentOf(a) == {x \in dify_docs : x.id = log[a].val.document_id}

\* C26: a failing stage is followed by no delete against object storage or
\* the indexing provider: whatever a storage upload or an indexing call
\* created is still there, whichever stage failed afterwards
C26_FailureLeavesOrphans ==
    \A a \in DOMAIN log :
        /\ (log[a].op = "storage" /\ log[a].ok) => StoredObjectOf(a) # {}
        /\ (log[a].op = "dify" /\ log[a].ok) => IndexedDocumentOf(a) # {}

\* the database insert of a part failed after its upload and its indexing
\* succeeded: the object and the indexed document remain, with no row
C26_Witness ==
    /\ RequestDone
    /\ log # << >>
    /\ log[Len(log)].op = "insert" /\ ~log[Len(log)].ok
    /\ \E b \in bucket : b.document_id = job.gcs_document_id
    /\ \E x \in dify_docs : x.id = job.dify_response.document_id
    /\ \A k \in DOMAIN documents : documents[k].gcs_document_id # job.gcs_document_id


\* the complete bytes of the file of part p
PartBytes(p) == [pages |-> split_parts[p].pages, size |-> split_parts[p].size]

\* positions of the log where stage op of part p read the file and succeeded
ReadsOf(op, p) == {a \in DOMAIN log : log[a].op = op /\ log[a].part = p /\ log[a].ok}

\* C27: the bytes sent to the OCR provider are the complete bytes of the
\* part, the same that were uploaded to object storage; between the stages,
\* and after a stage raised, the read position of the part is at the start
C27_SameBytesToOcr ==
    /\ job.fpos = 0
    /\ \A p \in DOMAIN split_parts :
          /\ \A a \in ReadsOf("storage", p) : log[a].val.content = PartBytes(p)
          /\ \A a \in ReadsOf("ocr", p) : log[a].val.content = PartBytes(p)

\* the second part of a split upload went through storage and OCR
C27_Witness ==
    /\ Len(split_parts) >= 2
    /\ PartBytes(2).size > 0
    /\ ReadsOf("storage", 2) # {}
    /\ ReadsOf("ocr", 2) # {}

----------------------------------------------------------------------------
(* Claims about the lifecycle of Document rows and the document routes *)

\* a row with its deletion timestamp left out of the comparison
WithoutDeletedAt(row) == [row EXCEPT !.deleted_at = 0]

\* C24: in every step the Document table only grows: no row is removed,
\* every field of an existing row other than deleted_at keeps its value, and
\* a deleted_at that is set stays set
C24_RowsOnlyGrow ==
    [][ /\ Len(documents') >= Len(documents)
        /\ \A k \in DOMAIN documents :
              /\ WithoutDeletedAt(documents'[k]) = WithoutDeletedAt(documents[k])
              /\ ~IsNull(documents[k].deleted_at) => ~IsNull(documents'[k].deleted_at)
      ]_vars

\* a row was soft-deleted by the last call, and another row was created
\* after it
C24_Witness ==
    /\ response.kind = "soft_delete" /\ response.result
    /\ Len(documents) = 2
    /\ ~IsNull(documents[1].deleted_at)
    /\ IsNull(documents[2].deleted_at)


\* every value a caller can put in the query string, 0 and '' included
AnyIdArgs == IdArgs \cup {Given(0)}
AnyGcsArgs == GcsArgs \cup {Given(EmptyStr)}
AnyDifyArgs == DifyArgs \cup {Given(EmptyStr)}

\* the live documents that a supplied identifier matches
MatchesAny(id, gcs, dify) ==
    MatchesById(id) \cup MatchesByGcs(gcs) \cup MatchesByDify(dify)

\* C28: GET /documents/single answers 422 exactly when no identifier is
\* supplied; with at least one supplied, whatever its value, it answers with
\* a matching live document or with 404
C28_Unprocessable ==
    \A id \in AnyIdArgs, gcs \in AnyGcsArgs, dify \in AnyDifyArgs :
        LET r == LookupSingleDocument(id, gcs, dify)
            supplied == id.given \/ gcs.given \/ dify.given
        IN  /\ (r.status = 422) <=> ~supplied
            /\ supplied =>
                  \/ r.status = 404
                  \/ r.status = 200 /\ r.document \in MatchesAny(id, gcs, dify)


\* the last request to be answered was a DELETE /documents/{id}
DeleteAnswered == response.kind = "delete_route"

\* C29: DELETE /documents/{id} reports success only when the request itself
\* turned a live document into a soft-deleted one (so of concurrent requests
\* for one document at most one succeeds), and answers 404 otherwise
C29_DeleteSucceedsOnce ==
    DeleteAnswered =>
        /\ response.status \in {200, 404}
        /\ (response.status = 200) <=> response.turned

----------------------------------------------------------------------------
(* Claim about the token issued at login *)

\* the routes that require bearer authentication
BearerEntries == {"route", "profile_route"}

\* C30: a request carrying the token a successful login returned, unexpired
\* and for a user that still exists, passes the verification of every route
\* that requires bearer auth: it is not answered 401
C30_LoginTokenAccepted ==
    (/\ chat.pc = "done"
     /\ chat.entry \in BearerEntries
     /\ chat.token \in LoginTokens
     /\ \E u \in users : CreateAccessToken(u.username) = chat.token) =>
        chat.status # 401

====
